---- MODULE Spec2Model ----
(***************************************************************************)
(* Model of Generator (src/src/generator.ts): the scaffolding run, the     *)
(* change planner _identifyChanges, and the two in-place patches           *)
(* _patchGitIgnore and _patchPackageJSON.                                  *)
(*                                                                         *)
(* Text files are sequences of tokens.  A token is one character that the  *)
(* code treats specially ("/", "\n", "\r", " ", "#") or a run of other     *)
(* characters ("node_modules", "_old", ...).                               *)
(***************************************************************************)
EXTENDS Integers, Sequences, FiniteSets, TLC

VARIABLES
  options,      \* this.options: the CLI arguments
  env,          \* process.env.TEST_OPTIONS and process.platform
  answers,      \* result of _askQuestions
  commands,     \* allCommands of the plan, in append order
  files,        \* the file map of the plan, in insertion order
  pc,           \* position of run()
  cmdIdx,       \* index of the next command of the running phase
  fileIdx,      \* index of the next entry of the file map to create
  trace,        \* what run() has done so far, in order
  failure,      \* why run() threw, "none" while it has not
  gitIgnore,    \* <rootDir>/.gitignore
  packageJSON,  \* <rootDir>/package.json
  disk,         \* the other files of rootDir: path -> content
  applied,      \* number of patch applications so far
  before        \* the patched file as the last application of the patch found it

vars == <<options, env, answers, commands, files, pc, cmdIdx, fileIdx, trace,
          failure, gitIgnore, packageJSON, disk, applied, before>>

-----------------------------------------------------------------------------
(* Bounds *)

MaxExtraLines == 1     \* unrelated lines at the head of a generated .gitignore
MaxTrailing == 2       \* trailing line ends of a generated .gitignore
MaxApply == 2          \* repeated applications of one patch

-----------------------------------------------------------------------------
(* Text helpers (String.prototype.trimEnd, RegExp with the m flag) *)

NL == "\n"
CR == "\r"
SP == " "
SLASH == "/"

IsWhiteSpace(t) == t \in {NL, CR, SP}
IsLineTerminator(t) == t \in {NL, CR}

RECURSIVE TrimEnd(_)
TrimEnd(s) ==
  IF s = <<>> THEN s
  ELSE IF IsWhiteSpace(s[Len(s)]) THEN TrimEnd(SubSeq(s, 1, Len(s) - 1))
  ELSE s

\* ^ with the m flag: start of input or just after a line terminator
AtLineStart(s, i) == i = 1 \/ (i > 1 /\ i - 1 <= Len(s) /\ IsLineTerminator(s[i - 1]))

\* $ with the m flag: end of input or just before a line terminator
AtLineEnd(s, i) == i = Len(s) + 1 \/ (i <= Len(s) /\ IsLineTerminator(s[i]))

\* the tokens of lit occur in s from position i on
LiteralAt(s, i, lit) ==
  /\ i + Len(lit) - 1 <= Len(s)
  /\ \A k \in 1..Len(lit) : s[i + k - 1] = lit[k]

-----------------------------------------------------------------------------
(* _patchGitIgnore *)

\* Object.entries(valuesToAdd): the value appended and the shape of its regex.
\*   lead: "none" (no slash accepted before the name), "optional" (\/?) or
\*         "required" (\/);  the name;  an optional slash after it (\/?);
\*   anchored: whether the regex ends in $.
valuesToAdd == <<
  [value |-> <<"node_modules", SLASH>>,
   lead |-> "none", name |-> <<"node_modules">>, anchored |-> FALSE],
  [value |-> <<SLASH, "test-results", SLASH>>,
   lead |-> "optional", name |-> <<"test-results">>, anchored |-> TRUE],
  [value |-> <<SLASH, "playwright-report", SLASH>>,
   lead |-> "required", name |-> <<"playwright-report">>, anchored |-> TRUE],
  [value |-> <<SLASH, "blob-report", SLASH>>,
   lead |-> "required", name |-> <<"blob-report">>, anchored |-> TRUE],
  [value |-> <<SLASH, "playwright", SLASH, ".cache", SLASH>>,
   lead |-> "required", name |-> <<"playwright", SLASH, ".cache">>, anchored |-> TRUE]
>>

\* a match that accepts only the value as it would be appended
ExactValueAt(s, i, e) ==
  /\ AtLineStart(s, i)
  /\ LiteralAt(s, i, e.value)
  /\ AtLineEnd(s, i + Len(e.value))

\* the regex of entry e matches with its ^ at position i of s
RegexMatchesAt(s, i, e) ==
  /\ AtLineStart(s, i)
  /\ \E l \in 0..1 :
       /\ (l = 1) => (e.lead # "none" /\ LiteralAt(s, i, <<SLASH>>))
       /\ (l = 0) => e.lead # "required"
       /\ LiteralAt(s, i + l, e.name)
       /\ \E t \in 0..1 :
            /\ (t = 1) => LiteralAt(s, i + l + Len(e.name), <<SLASH>>)
            /\ e.anchored => AtLineEnd(s, i + l + Len(e.name) + t)

\* gitIgnore.match(regex)
RegexMatch(s, e) == \E i \in 1..(Len(s) + 1) : RegexMatchesAt(s, i, e)

HeadingPlaywright == <<NL, "#", SP, "Playwright", NL>>

\* the forEach with a flag that is never cleared
RECURSIVE AddValuesHeadingEach(_, _, _)
AddValuesHeadingEach(text, thisIsTheFirstLineWeAreAdding, i) ==
  IF i > Len(valuesToAdd) THEN text
  ELSE IF ~RegexMatch(text, valuesToAdd[i])
       THEN AddValuesHeadingEach(
              (IF thisIsTheFirstLineWeAreAdding THEN text \o HeadingPlaywright ELSE text)
                \o valuesToAdd[i].value \o <<NL>>,
              thisIsTheFirstLineWeAreAdding, i + 1)
       ELSE AddValuesHeadingEach(text, thisIsTheFirstLineWeAreAdding, i + 1)

\* the forEach over Object.entries(valuesToAdd), from entry i on
RECURSIVE AddValues(_, _, _)
AddValues(text, thisIsTheFirstLineWeAreAdding, i) ==
  IF i > Len(valuesToAdd) THEN text
  ELSE IF ~RegexMatch(text, valuesToAdd[i])
       THEN AddValues(
              (IF thisIsTheFirstLineWeAreAdding THEN text \o HeadingPlaywright ELSE text)
                \o valuesToAdd[i].value \o <<NL>>,
              FALSE, i + 1)
       ELSE AddValues(text, thisIsTheFirstLineWeAreAdding, i + 1)

\* a read of .gitignore that keeps the trailing white space
ReadGitIgnoreNoTrim(g) == IF g.exists THEN g.text \o <<NL>> ELSE <<>>

\* the content read at the start of _patchGitIgnore
ReadGitIgnore(g) == IF g.exists THEN TrimEnd(g.text) \o <<NL>> ELSE <<>>

\* the file _patchGitIgnore leaves, given the file g it found
PatchGitIgnore(g) == [exists |-> TRUE, text |-> AddValues(ReadGitIgnore(g), TRUE, 1)]

NoGitIgnore == [exists |-> FALSE, text |-> <<>>]

-----------------------------------------------------------------------------
(* utils.ts and packageManager.ts (npm) *)

\* "" stands for undefined
Undefined == ""

languageToFileExtension(language) == IF language = "JavaScript" THEN "js" ELSE "ts"

getFileExtensionCT(language, framework) ==
  IF framework \in {"solid", "react", "react17"}
  THEN (IF language = "JavaScript" THEN "jsx" ELSE "tsx")
  ELSE IF framework = "vue2" THEN "js"
  ELSE languageToFileExtension(language)

pmName == "npm"
pmInit == "npm init -y"
pmInstallDevDependency(name) == "npm install --save-dev " \o name
pmNpx(command, args) == "npx " \o command \o " " \o args
pmRun(script) == "npm run " \o script
pmRunPlaywrightTest == "npx playwright test"
pmCi == "npm ci"
pmI == "npm i"

-----------------------------------------------------------------------------
(* package.json: JSON.parse, JSON.stringify(_, null, 2) + '\n' *)

\* A package.json file is absent, unparseable ("corrupt") or the text of a JSON
\* object ("json"): its indentation, whether it ends in a line end, its
\* top-level keys in textual order, the members of "scripts" in textual order
\* (a key may be repeated in the text) and the names under each dependency key.
DepKeys == {"dependencies", "devDependencies", "optionalDependencies"}

NoDeps == [k \in DepKeys |-> {}]

NoPackageJSON ==
  [kind |-> "absent", indent |-> 0, eol |-> FALSE, order |-> <<>>, scripts |-> <<>>, deps |-> NoDeps]

CorruptPackageJSON ==
  [kind |-> "corrupt", indent |-> 0, eol |-> FALSE, order |-> <<>>, scripts |-> <<>>, deps |-> NoDeps]

NoTestSpecified == "echo \"Error: no test specified\" && exit 1"

\* String.prototype.includes('no test specified') over the script texts used
IncludesNoTestSpecified(v) == v \in {NoTestSpecified, "echo no test specified"}

HasKey(members, k) == \E i \in 1..Len(members) : members[i].k = k

\* the value of key k: the last occurrence in the text wins
RECURSIVE ValueOf(_, _)
ValueOf(members, k) ==
  IF members[Len(members)].k = k THEN members[Len(members)].v
  ELSE ValueOf(SubSeq(members, 1, Len(members) - 1), k)

\* the members of a parsed object: every key once, at the place of its first
\* occurrence, with the value of its last
RECURSIVE ParseMembers(_, _)
ParseMembers(members, all) ==
  IF members = <<>> THEN <<>>
  ELSE LET init == SubSeq(members, 1, Len(members) - 1)
           last == members[Len(members)]
       IN IF HasKey(init, last.k) THEN ParseMembers(init, all)
          ELSE ParseMembers(init, all) \o <<[k |-> last.k, v |-> ValueOf(all, last.k)]>>

\* JSON.parse of a parseable file: the object, without the text's layout
JSONParse(file) ==
  [order |-> file.order, scripts |-> ParseMembers(file.scripts, file.scripts), deps |-> file.deps]

\* JSON.stringify(obj, null, 2) + '\n'
JSONStringify(obj) ==
  [kind |-> "json", indent |-> 2, eol |-> TRUE,
   order |-> obj.order, scripts |-> obj.scripts, deps |-> obj.deps]

InSeq(x, s) == \E i \in 1..Len(s) : s[i] = x

\* delete obj[k]
DeleteKey(members, k) == SelectSeq(members, LAMBDA m : m.k # k)

\* obj[k] = v done on the text: the member is written at the end
AppendKey(members, k, v) == members \o <<[k |-> k, v |-> v]>>

\* obj[k] = v: an existing key keeps its place, a new key goes last
SetKey(members, k, v) ==
  IF HasKey(members, k)
  THEN [i \in 1..Len(members) |-> IF members[i].k = k THEN [k |-> k, v |-> v] ELSE members[i]]
  ELSE members \o <<[k |-> k, v |-> v]>>

-----------------------------------------------------------------------------
(* _hasDependency, _patchPackageJSON *)

\* _hasDependency: the catch turns every failure to read or parse into false
hasDependency(file, pkg) ==
  IF file.kind # "json" THEN FALSE
  ELSE \E k \in DepKeys : pkg \in JSONParse(file).deps[k]

\* _patchPackageJSON throws: readFileSync on a missing file, JSON.parse on an
\* unparseable one
PatchPackageJSONThrows(file) == file.kind # "json"

TestCtScript(extension) == "playwright test -c playwright-ct.config." \o extension

\* lines 312-313
WithScripts(obj) ==
  IF InSeq("scripts", obj.order) THEN obj
  ELSE [obj EXCEPT !.order = @ \o <<"scripts">>, !.scripts = <<>>]

\* lines 314-315
WithoutPlaceholder(obj) ==
  IF HasKey(obj.scripts, "test") /\ IncludesNoTestSpecified(ValueOf(obj.scripts, "test"))
  THEN [obj EXCEPT !.scripts = DeleteKey(@, "test")]
  ELSE obj

\* a test-ct script named after the extension of the bootstrap file
WithTestCtBootstrapExtension(obj, ans) ==
  IF ans.framework # Undefined
  THEN [obj EXCEPT !.scripts =
          SetKey(@, "test-ct", TestCtScript(getFileExtensionCT(ans.language, ans.framework)))]
  ELSE obj

\* a patch that sets no test-ct script
WithoutTestCt(obj, ans) == obj

\* lines 317-319
WithTestCt(obj, ans) ==
  IF ans.framework # Undefined
  THEN [obj EXCEPT !.scripts = SetKey(@, "test-ct", TestCtScript(languageToFileExtension(ans.language)))]
  ELSE obj

\* the object _patchPackageJSON serialises
PatchedObject(file, ans) == WithTestCt(WithoutPlaceholder(WithScripts(JSONParse(file))), ans)

\* the file _patchPackageJSON writes, given the parseable file it found
PatchPackageJSON(file, ans) == JSONStringify(PatchedObject(file, ans))

-----------------------------------------------------------------------------
(* _identifyChanges *)

\* executeTemplate(_readAsset(asset), vars, sections): the rendered text is
\* kept as the asset with the variables and section directives applied to it
executeTemplate(asset, tvars, sections) == [asset |-> asset, vars |-> tvars, sections |-> sections]

\* _readAsset(asset) written verbatim
readAsset(asset) == executeTemplate(asset, <<>>, <<>>)

\* files.set(path, content) on an insertion-ordered Map
FilesSet(fileMap, path, content) ==
  IF \E i \in 1..Len(fileMap) : fileMap[i].path = path
  THEN [i \in 1..Len(fileMap) |->
          IF fileMap[i].path = path THEN [path |-> path, content |-> content] ELSE fileMap[i]]
  ELSE fileMap \o <<[path |-> path, content |-> content]>>

FilesHas(fileMap, path) == \E i \in 1..Len(fileMap) : fileMap[i].path = path

FilesGet(fileMap, path) ==
  fileMap[CHOOSE i \in 1..Len(fileMap) : fileMap[i].path = path].content

BrowserNames == <<"chromium", "firefox", "webkit">>

\* lines 168-170
Sections(opts) ==
  [i \in 1..Len(BrowserNames) |->
     [name |-> BrowserNames[i],
      mode |-> IF opts.browser = <<>> \/ InSeq(BrowserNames[i], opts.browser)
               THEN "show" ELSE "comment"]]

\* the tag with the two tests in the other order
PackageTagBetaLast(opts) == IF opts.beta THEN "@beta" ELSE IF opts.next THEN "@next" ELSE ""

\* lines 211-215
PackageTag(opts) == IF opts.next THEN "@next" ELSE IF opts.beta THEN "@beta" ELSE ""

\* lines 172-175 as read at line 238: ctPackageName is assigned only when a
\* framework was selected; the template literal renders the unassigned
\* variable as "undefined"
CtPackageName(ans) ==
  IF ans.framework # Undefined
  THEN "@playwright/experimental-ct-" \o ans.framework
  ELSE "undefined"

\* lines 172-185: the configuration file
ConfigFiles(opts, ans) ==
  LET fileExtension == languageToFileExtension(ans.language)
  IN IF ans.framework # Undefined
     THEN FilesSet(<<>>, "playwright-ct.config." \o fileExtension,
            executeTemplate("playwright-ct.config." \o fileExtension,
              <<[k |-> "testDir", v |-> ans.testDir], [k |-> "ctPackageName", v |-> CtPackageName(ans)]>>,
              Sections(opts)))
     ELSE FilesSet(<<>>, "playwright.config." \o fileExtension,
            executeTemplate("playwright.config." \o fileExtension,
              <<[k |-> "testDir", v |-> ans.testDir]>>, Sections(opts)))

\* lines 187-196: the GitHub Actions workflow
WorkflowPath == ".github/workflows/playwright.yml"

WorkflowFiles(fileMap, ans, packageLockDisabled) ==
  IF ans.installGitHubActions
  THEN FilesSet(fileMap, WorkflowPath,
         executeTemplate("github-actions.yml",
           <<[k |-> "installDepsCommand", v |-> IF packageLockDisabled THEN pmI ELSE pmCi],
             [k |-> "installPlaywrightCommand", v |-> pmNpx("playwright", "install --with-deps")],
             [k |-> "runTestsCommand",
              v |-> IF ans.framework # Undefined THEN pmRun("test-ct") ELSE pmRunPlaywrightTest]>>,
           <<>>))
  ELSE fileMap

\* lines 173, 176, 198-201: the example tests
ExampleFiles(fileMap, opts, ans) ==
  LET fileExtension == languageToFileExtension(ans.language)
      installExamples == ~opts.noExamples /\ ans.framework = Undefined
  IN IF installExamples
     THEN FilesSet(
            FilesSet(fileMap, ans.testDir \o "/example.spec." \o fileExtension,
                     readAsset("example.spec." \o fileExtension)),
            "tests-examples/demo-todo-app.spec." \o fileExtension,
            readAsset("demo-todo-app.spec." \o fileExtension))
     ELSE fileMap

\* lines 242-247: the component-testing bootstrap pair
CtFiles(fileMap, opts, ans) ==
  LET extension == getFileExtensionCT(ans.language, ans.framework)
  IN IF opts.ct
     THEN FilesSet(
            FilesSet(fileMap, "playwright/index.html",
                     executeTemplate("playwright/index.html", <<[k |-> "extension", v |-> extension]>>, <<>>)),
            "playwright/index." \o extension, readAsset("playwright/index.js"))
     ELSE fileMap

Cmd(name, command, phase) == [name |-> name, command |-> command, phase |-> phase]

\* lines 203-209
InitCommands(pkg) ==
  IF pkg.kind = "absent"
  THEN <<Cmd("Initializing " \o pmName \o " project", pmInit, "pre")>>
  ELSE <<>>

\* lines 217-233
E2ECommands(opts) ==
  IF ~opts.ct
  THEN <<Cmd("Installing Playwright Test", pmInstallDevDependency("@playwright/test" \o PackageTag(opts)), "pre"),
         Cmd("Installing dotenv", pmInstallDevDependency("dotenv"), "pre"),
         Cmd("Installing dxp/playwright-tools",
             pmInstallDevDependency("@dxp/playwright-tools" \o PackageTag(opts)), "pre")>>
  ELSE <<>>

\* lines 235-240
CtCommands(opts, ans) ==
  IF opts.ct
  THEN <<Cmd("Installing Playwright Component Testing",
             pmInstallDevDependency(CtPackageName(ans) \o PackageTag(opts)), "pre")>>
  ELSE <<>>

\* lines 250-256
TypesCommands(pkg) ==
  IF ~hasDependency(pkg, "@types/node")
  THEN <<Cmd("Installing Types", pmInstallDevDependency("@types/node"), "pre")>>
  ELSE <<>>

RECURSIVE JoinWith(_, _)
JoinWith(strs, sep) ==
  IF strs = <<>> THEN ""
  ELSE IF Len(strs) = 1 THEN strs[1]
  ELSE strs[1] \o sep \o JoinWith(Tail(strs), sep)

\* lines 258-265
BrowserCommands(opts, ans) ==
  LET browsersSuffix == IF opts.browser # <<>> THEN " " \o JoinWith(opts.browser, " ") ELSE ""
  IN IF ans.installPlaywrightBrowsers
     THEN <<Cmd("Downloading browsers",
                pmNpx("playwright", "install")
                  \o (IF ans.installPlaywrightDependencies THEN " --with-deps" ELSE "")
                  \o browsersSuffix,
                "post")>>
     ELSE <<>>

\* _identifyChanges: the file map and the command list, given the options, the
\* answers, the package.json found and whether .npmrc disables the lock file
identifyChanges(opts, ans, pkg, packageLockDisabled) ==
  [files |-> CtFiles(ExampleFiles(WorkflowFiles(ConfigFiles(opts, ans), ans, packageLockDisabled),
                                  opts, ans),
                     opts, ans),
   commands |-> InitCommands(pkg) \o E2ECommands(opts) \o CtCommands(opts, ans)
                  \o TypesCommands(pkg) \o BrowserCommands(opts, ans)]

-----------------------------------------------------------------------------
(* The directory, the answers *)

\* the other files of rootDir are a set of [path, content], one per path
Exists(d, path) == \E f \in d : f.path = path

ContentOf(d, path) == (CHOOSE f \in d : f.path = path).content

WriteFile(d, path, content) == {f \in d : f.path # path} \cup {[path |-> path, content |-> content]}

\* a file or directory that was there before the run
UserEntry(path, what) == [path |-> path, content |-> executeTemplate(what, <<>>, <<>>)]

\* ini.parse(.npmrc)['package-lock'] === false (lines 188-189)
PackageLockDisabled(d) ==
  Exists(d, ".npmrc") /\ ContentOf(d, ".npmrc").asset = "package-lock=false"

Languages == {"JavaScript", "TypeScript"}
Frameworks == {"react", "react17", "vue", "vue2", "svelte", "solid"}

BlankAnswers ==
  [testDir |-> Undefined, installGitHubActions |-> FALSE, language |-> "TypeScript",
   framework |-> Undefined, installPlaywrightDependencies |-> FALSE,
   installPlaywrightBrowsers |-> FALSE]

\* lines 84-93: the answers of a quiet run
QuietAnswers(opts, d) ==
  [installGitHubActions |-> opts.gha,
   language |-> IF opts.lang = "js" THEN "JavaScript" ELSE "TypeScript",
   installPlaywrightDependencies |-> opts.installDeps,
   testDir |-> IF Exists(d, "tests") THEN "e2e" ELSE "tests",
   framework |-> Undefined,
   installPlaywrightBrowsers |-> ~opts.noBrowsers]

\* lines 95-160: the answers the prompt can return.  A question that is not
\* asked leaves its field undefined; a skipped one yields its initial value.
PromptAnswers(opts, e, d) ==
  LET isDefinitelyTS == Exists(d, "tsconfig.json")
  IN {a \in [testDir : {Undefined, "tests", "e2e"}, installGitHubActions : BOOLEAN,
             language : Languages, framework : Frameworks \cup {Undefined},
             installPlaywrightDependencies : BOOLEAN, installPlaywrightBrowsers : BOOLEAN] :
        /\ isDefinitelyTS => a.language = "TypeScript"
        /\ (~isDefinitelyTS /\ opts.lang # Undefined) =>
             a.language = (IF opts.lang = "js" THEN "JavaScript" ELSE "TypeScript")
        /\ (a.framework # Undefined) = opts.ct
        /\ (a.testDir # Undefined) = ~opts.ct
        /\ opts.ct => ~a.installGitHubActions
        /\ (~opts.ct /\ opts.gha) => a.installGitHubActions
        /\ (opts.noBrowsers \/ opts.browser # <<>>) =>
             a.installPlaywrightBrowsers = (~opts.noBrowsers \/ opts.browser # <<>>)
        /\ ~e.linux => ~a.installPlaywrightDependencies
        /\ (e.linux /\ opts.installDeps) => a.installPlaywrightDependencies}

\* lines 81-161
askQuestions(opts, e, d) ==
  IF e.hasTestOptions THEN {e.TEST_OPTIONS}
  ELSE IF opts.quiet THEN {QuietAnswers(opts, d)}
  ELSE PromptAnswers(opts, e, d)

-----------------------------------------------------------------------------
(* Generator.run *)

\* a partition that leaves every command in the first list
AllCommandsOf(cmds) == cmds

\* lines 61-64: the partition of allCommands by phase
preCommandsOf(cmds) == SelectSeq(cmds, LAMBDA c : c.phase = "pre")
postCommandsOf(cmds) == SelectSeq(cmds, LAMBDA c : c.phase # "pre")

Event(kind, what) == [kind |-> kind, what |-> what]

\* what `npm init -y` leaves in a directory without a package.json
NpmInitPackageJSON ==
  [kind |-> "json", indent |-> 2, eol |-> TRUE,
   order |-> <<"name", "version", "scripts">>,
   scripts |-> <<[k |-> "test", v |-> NoTestSpecified]>>,
   deps |-> NoDeps]

\* a command that succeeded, as far as package.json goes: init creates the
\* file, an install rewrites a parseable one with devDependencies in it
CommandEffect(c, file) ==
  IF c.command = pmInit
  THEN (IF file.kind = "absent" THEN NpmInitPackageJSON ELSE file)
  ELSE IF c.phase = "pre" /\ file.kind = "json"
  THEN LET obj == JSONParse(file)
       IN JSONStringify(
            [obj EXCEPT !.order = IF InSeq("devDependencies", @) THEN @ ELSE @ \o <<"devDependencies">>,
                        !.deps = [@ EXCEPT !["devDependencies"] = @ \cup {c.command}]])
  ELSE file

\* line 59
AskQuestions ==
  /\ pc = "Init"
  /\ \E a \in askQuestions(options, env, disk) : answers' = a
  /\ pc' = "Planning"
  /\ UNCHANGED <<options, env, commands, files, cmdIdx, fileIdx, trace, failure,
                 gitIgnore, packageJSON, disk, applied, before>>

\* line 60
IdentifyChanges ==
  /\ pc = "Planning"
  /\ LET plan == identifyChanges(options, answers, packageJSON, PackageLockDisabled(disk))
     IN /\ commands' = plan.commands
        /\ files' = plan.files
  /\ pc' = "PreCommands"
  /\ cmdIdx' = 1
  /\ UNCHANGED <<options, env, answers, fileIdx, trace, failure,
                 gitIgnore, packageJSON, disk, applied, before>>

\* executeCommands: one command of the phase succeeds
RunCommand(phase, cmds) ==
  /\ pc = phase
  /\ cmdIdx <= Len(cmds)
  /\ trace' = Append(trace, Event("command", cmds[cmdIdx].name))
  /\ packageJSON' = CommandEffect(cmds[cmdIdx], packageJSON)
  /\ cmdIdx' = cmdIdx + 1
  /\ UNCHANGED <<options, env, answers, commands, files, pc, fileIdx, failure,
                 gitIgnore, disk, applied, before>>

\* executeCommands: one command of the phase fails and execSync throws
FailCommand(phase, cmds) ==
  /\ pc = phase
  /\ cmdIdx <= Len(cmds)
  /\ pc' = "Failed"
  /\ failure' = "command"
  /\ UNCHANGED <<options, env, answers, commands, files, cmdIdx, fileIdx, trace,
                 gitIgnore, packageJSON, disk, applied, before>>

\* line 65
PreCommand == RunCommand("PreCommands", preCommandsOf(commands))

PreCommandFails == FailCommand("PreCommands", preCommandsOf(commands))

PreCommandsDone ==
  /\ pc = "PreCommands"
  /\ cmdIdx > Len(preCommandsOf(commands))
  /\ pc' = "WriteFiles"
  /\ fileIdx' = 1
  /\ UNCHANGED <<options, env, answers, commands, files, cmdIdx, trace, failure,
                 gitIgnore, packageJSON, disk, applied, before>>

\* line 66, createFiles: the next file of the map is written; one that exists
\* is written only if the user agrees to override it
CreateFile ==
  /\ pc = "WriteFiles"
  /\ fileIdx <= Len(files)
  /\ \E override \in BOOLEAN :
       IF Exists(disk, files[fileIdx].path) /\ ~override
       THEN /\ trace' = Append(trace, Event("kept", files[fileIdx].path))
            /\ disk' = disk
       ELSE /\ trace' = Append(trace, Event("file", files[fileIdx].path))
            /\ disk' = WriteFile(disk, files[fileIdx].path, files[fileIdx].content)
  /\ fileIdx' = fileIdx + 1
  /\ UNCHANGED <<options, env, answers, commands, files, pc, cmdIdx, failure,
                 gitIgnore, packageJSON, applied, before>>

\* createFiles: mkdir or writeFile rejects
CreateFileFails ==
  /\ pc = "WriteFiles"
  /\ fileIdx <= Len(files)
  /\ pc' = "Failed"
  /\ failure' = "write"
  /\ UNCHANGED <<options, env, answers, commands, files, cmdIdx, fileIdx, trace,
                 gitIgnore, packageJSON, disk, applied, before>>

WriteFilesDone ==
  /\ pc = "WriteFiles"
  /\ fileIdx > Len(files)
  /\ pc' = "PatchIgnore"
  /\ UNCHANGED <<options, env, answers, commands, files, cmdIdx, fileIdx, trace, failure,
                 gitIgnore, packageJSON, disk, applied, before>>

\* line 67
PatchIgnore ==
  /\ pc = "PatchIgnore"
  /\ gitIgnore' = PatchGitIgnore(gitIgnore)
  /\ trace' = Append(trace, Event("patch", ".gitignore"))
  /\ pc' = "PatchManifest"
  /\ UNCHANGED <<options, env, answers, commands, files, cmdIdx, fileIdx, failure,
                 packageJSON, disk, applied, before>>

\* line 67: readFileSync or writeFileSync throws
PatchIgnoreFails ==
  /\ pc = "PatchIgnore"
  /\ pc' = "Failed"
  /\ failure' = "write"
  /\ UNCHANGED <<options, env, answers, commands, files, cmdIdx, fileIdx, trace,
                 gitIgnore, packageJSON, disk, applied, before>>

\* line 68
PatchManifest ==
  /\ pc = "PatchManifest"
  /\ ~PatchPackageJSONThrows(packageJSON)
  /\ before' = packageJSON
  /\ packageJSON' = PatchPackageJSON(packageJSON, answers)
  /\ trace' = Append(trace, Event("patch", "package.json"))
  /\ pc' = "PostCommands"
  /\ cmdIdx' = 1
  /\ UNCHANGED <<options, env, answers, commands, files, fileIdx, failure,
                 gitIgnore, disk, applied>>

\* a run that notes the unreadable package.json and goes on
PatchManifestSkipped ==
  /\ pc = "PatchManifest"
  /\ PatchPackageJSONThrows(packageJSON)
  /\ pc' = "PostCommands"
  /\ cmdIdx' = 1
  /\ failure' = "manifest"
  /\ UNCHANGED <<options, env, answers, commands, files, fileIdx, trace,
                 gitIgnore, packageJSON, disk, applied, before>>

\* line 68: package.json is missing or does not parse, and nothing catches it
PatchManifestThrows ==
  /\ pc = "PatchManifest"
  /\ PatchPackageJSONThrows(packageJSON)
  /\ pc' = "Failed"
  /\ failure' = "manifest"
  /\ UNCHANGED <<options, env, answers, commands, files, cmdIdx, fileIdx, trace,
                 gitIgnore, packageJSON, disk, applied, before>>

\* line 68: the write of package.json rejects
PatchManifestFails ==
  /\ pc = "PatchManifest"
  /\ ~PatchPackageJSONThrows(packageJSON)
  /\ pc' = "Failed"
  /\ failure' = "write"
  /\ UNCHANGED <<options, env, answers, commands, files, cmdIdx, fileIdx, trace,
                 gitIgnore, packageJSON, disk, applied, before>>

\* line 69
PostCommand == RunCommand("PostCommands", postCommandsOf(commands))

PostCommandFails == FailCommand("PostCommands", postCommandsOf(commands))

\* lines 70-73
PostCommandsDone ==
  /\ pc = "PostCommands"
  /\ cmdIdx > Len(postCommandsOf(commands))
  /\ pc' = "Done"
  /\ UNCHANGED <<options, env, answers, commands, files, cmdIdx, fileIdx, trace, failure,
                 gitIgnore, packageJSON, disk, applied, before>>

-----------------------------------------------------------------------------
(* The runs checked: every step of Generator.run, over a small set of         *)
(* directories and command lines                                              *)

DefaultOptions ==
  [ct |-> FALSE, quiet |-> FALSE, gha |-> FALSE, noExamples |-> FALSE, noBrowsers |-> FALSE,
   installDeps |-> FALSE, beta |-> FALSE, next |-> FALSE, browser |-> <<>>, lang |-> Undefined]

NoTestOptions == [hasTestOptions |-> FALSE, TEST_OPTIONS |-> BlankAnswers, linux |-> FALSE]

\* the TEST_OPTIONS of tests/component-testing.spec.ts, line 23
CtReactAnswers ==
  [installGitHubActions |-> TRUE, testDir |-> "tests", language |-> "TypeScript",
   installPlaywrightDependencies |-> FALSE, installPlaywrightBrowsers |-> TRUE,
   framework |-> "react"]

RunOptions ==
  {[DefaultOptions EXCEPT !.ct = ct, !.quiet = quiet, !.gha = gha, !.noExamples = noExamples] :
     ct \in BOOLEAN, quiet \in BOOLEAN, gha \in BOOLEAN, noExamples \in BOOLEAN}

RunEnvs == {NoTestOptions, [hasTestOptions |-> TRUE, TEST_OPTIONS |-> CtReactAnswers, linux |-> FALSE]}

RunDisks ==
  {{},
   {UserEntry("tests", "directory"), UserEntry("playwright.config.ts", "user file"),
    UserEntry("playwright/index.html", "user file"), UserEntry(".npmrc", "package-lock=false")}}

RunGitIgnores == {NoGitIgnore, [exists |-> TRUE, text |-> <<"node_modules">>]}

UserPackageJSON ==
  [kind |-> "json", indent |-> 4, eol |-> FALSE,
   order |-> <<"scripts", "name", "devDependencies">>,
   scripts |-> <<[k |-> "test-ct", v |-> "jest"], [k |-> "test", v |-> "echo no test specified"]>>,
   deps |-> [NoDeps EXCEPT !["devDependencies"] = {"@types/node"}]]

\* the manifest of the scenario in the specification, section 8
PlaceholderPackageJSON ==
  [kind |-> "json", indent |-> 2, eol |-> TRUE, order |-> <<"scripts">>,
   scripts |-> <<[k |-> "test", v |-> NoTestSpecified]>>, deps |-> NoDeps]

\* a manifest with a test script of its own, written with a repeated key
JestPackageJSON ==
  [kind |-> "json", indent |-> 2, eol |-> TRUE, order |-> <<"name", "scripts">>,
   scripts |-> <<[k |-> "test", v |-> NoTestSpecified], [k |-> "test", v |-> "jest"]>>,
   deps |-> NoDeps]

RunPackageJSONs ==
  {NoPackageJSON, CorruptPackageJSON, UserPackageJSON, PlaceholderPackageJSON, JestPackageJSON}

Init ==
  /\ options \in RunOptions
  /\ env \in RunEnvs
  /\ disk \in RunDisks
  /\ gitIgnore \in RunGitIgnores
  /\ packageJSON \in RunPackageJSONs
  /\ answers = BlankAnswers
  /\ commands = <<>>
  /\ files = <<>>
  /\ pc = "Init"
  /\ cmdIdx = 1
  /\ fileIdx = 1
  /\ trace = <<>>
  /\ failure = "none"
  /\ applied = 0
  /\ before = NoPackageJSON

Next ==
  \/ AskQuestions
  \/ IdentifyChanges
  \/ PreCommand
  \/ PreCommandFails
  \/ PreCommandsDone
  \/ CreateFile
  \/ CreateFileFails
  \/ WriteFilesDone
  \/ PatchIgnore
  \/ PatchIgnoreFails
  \/ PatchManifest
  \/ PatchManifestThrows
  \/ PatchManifestFails
  \/ PostCommand
  \/ PostCommandFails
  \/ PostCommandsDone

Spec == Init /\ [][Next]_vars

-----------------------------------------------------------------------------
(* _patchGitIgnore applied again and again to one .gitignore *)

LineForms == {"absent", "bare", "lead", "trail", "suffixed"}

\* the line written for a directory name in one of the forms
LineOf(name, form) ==
  CASE form = "bare" -> name
    [] form = "lead" -> <<SLASH>> \o name
    [] form = "trail" -> name \o <<SLASH>>
    [] form = "suffixed" -> name \o <<"_old">>
    [] OTHER -> <<>>

RECURSIVE Repeat(_, _)
Repeat(s, n) == IF n = 0 THEN <<>> ELSE s \o Repeat(s, n - 1)

RECURSIVE EntryLines(_, _)
EntryLines(forms, i) ==
  IF i > Len(valuesToAdd) THEN <<>>
  ELSE (IF forms[i] = "absent" THEN <<>> ELSE <<LineOf(valuesToAdd[i].name, forms[i])>>)
         \o EntryLines(forms, i + 1)

RECURSIVE JoinLines(_)
JoinLines(lines) ==
  IF lines = <<>> THEN <<>>
  ELSE IF Len(lines) = 1 THEN lines[1]
  ELSE lines[1] \o <<NL>> \o JoinLines(Tail(lines))

\* a .gitignore: some unrelated lines, then at most one line per directory
\* name, then some line ends
GitIgnoreText(extra, forms, trailing) ==
  JoinLines(Repeat(<<<<"dist">>>>, extra) \o EntryLines(forms, 1)) \o Repeat(<<NL>>, trailing)

GitIgnoreInputs ==
  {NoGitIgnore} \cup
  {[exists |-> TRUE, text |-> GitIgnoreText(extra, forms, trailing)] :
     extra \in 0..MaxExtraLines,
     forms \in [1..Len(valuesToAdd) -> LineForms],
     trailing \in 0..MaxTrailing}

InitIgnore ==
  /\ gitIgnore \in GitIgnoreInputs
  /\ options = DefaultOptions
  /\ env = NoTestOptions
  /\ disk = {}
  /\ packageJSON = NoPackageJSON
  /\ answers = BlankAnswers
  /\ commands = <<>>
  /\ files = <<>>
  /\ pc = "PatchIgnore"
  /\ cmdIdx = 1
  /\ fileIdx = 1
  /\ trace = <<>>
  /\ failure = "none"
  /\ applied = 0
  /\ before = NoGitIgnore

ApplyPatchGitIgnore ==
  /\ applied < MaxApply
  /\ before' = gitIgnore
  /\ gitIgnore' = PatchGitIgnore(gitIgnore)
  /\ applied' = applied + 1
  /\ UNCHANGED <<options, env, answers, commands, files, pc, cmdIdx, fileIdx, trace,
                 failure, packageJSON, disk>>

NextIgnore == ApplyPatchGitIgnore

SpecIgnore == InitIgnore /\ [][NextIgnore]_vars

-----------------------------------------------------------------------------
(* Claims about _patchGitIgnore, read off the lines of the file *)

\* the lines of a text: the runs of tokens between line ends
RECURSIVE SplitLines(_, _)
SplitLines(text, current) ==
  IF text = <<>> THEN <<current>>
  ELSE IF Head(text) = NL THEN <<current>> \o SplitLines(Tail(text), <<>>)
  ELSE SplitLines(Tail(text), Append(current, Head(text)))

LinesOf(g) == IF g.exists THEN SplitLines(g.text, <<>>) ELSE <<>>

CountLine(lines, line) == Cardinality({i \in 1..Len(lines) : lines[i] = line})

\* the directory name, with or without a slash before and after it
FourForms(name) == {name, <<SLASH>> \o name, name \o <<SLASH>>, <<SLASH>> \o name \o <<SLASH>>}

StartsWith(line, prefix) == Len(line) >= Len(prefix) /\ SubSeq(line, 1, Len(prefix)) = prefix

\* the line satisfies the pattern written for entry i
LineSatisfies(line, i) ==
  CASE i = 1 -> StartsWith(line, <<"node_modules">>)
    [] i = 2 -> line \in FourForms(<<"test-results">>)
    [] OTHER -> line \in {<<SLASH>> \o valuesToAdd[i].name, <<SLASH>> \o valuesToAdd[i].name \o <<SLASH>>}

EveryEntrySatisfied(g) ==
  /\ g.exists
  /\ \A i \in 1..Len(valuesToAdd) : \E n \in 1..Len(LinesOf(g)) : LineSatisfies(LinesOf(g)[n], i)

\* the last application appended the value of entry i
Appended(i) ==
  CountLine(LinesOf(gitIgnore), valuesToAdd[i].value) > CountLine(LinesOf(before), valuesToAdd[i].value)

HeadingLine == <<"#", SP, "Playwright">>

\* C4: a second application of the .gitignore patch leaves the file as the
\* first application left it.
C4_GitIgnoreIdempotent == applied >= 2 => gitIgnore = before

C4_Witness ==
  /\ applied = 2
  /\ gitIgnore = before
  /\ CountLine(LinesOf(gitIgnore), HeadingLine) = 1
  /\ CountLine(LinesOf(gitIgnore), <<"node_modules">>) = 1

\* C5 as claimed: when every required entry is already satisfied by a line of
\* the file, the patch leaves every character of the file as it was.
C5_FileUnchanged ==
  (applied >= 1 /\ EveryEntrySatisfied(before)) => gitIgnore.text = before.text

\* C5 as amended: when every required entry is already satisfied by a line of
\* the file, the patch changes nothing but the white space at the end of the
\* file, which becomes one line end: no entry and no heading is added.
C5_OnlyTrailingSpaceChanges ==
  (applied >= 1 /\ EveryEntrySatisfied(before)) =>
    /\ \E k \in 1..Len(before.text) :
         /\ ~IsWhiteSpace(before.text[k])
         /\ \A j \in (k + 1)..Len(before.text) : IsWhiteSpace(before.text[j])
         /\ gitIgnore.text = SubSeq(before.text, 1, k) \o <<NL>>
    /\ CountLine(LinesOf(gitIgnore), HeadingLine) = CountLine(LinesOf(before), HeadingLine)
    /\ \A i \in 1..Len(valuesToAdd) : ~Appended(i)

C5_Witness ==
  /\ applied = 1
  /\ EveryEntrySatisfied(before)
  /\ CountLine(LinesOf(before), <<"node_modules">>) = 1
  /\ CountLine(LinesOf(gitIgnore), <<"node_modules", SLASH>>) = 0
  /\ gitIgnore.text # before.text

\* C6: an entry is appended exactly when no line of the file is its directory
\* name with an optional slash before and an optional slash after.
C6_FourFormsRecognised ==
  applied = 1 =>
    \A i \in 1..Len(valuesToAdd) :
      Appended(i) <=> ~(\E n \in 1..Len(LinesOf(before)) :
                          LinesOf(before)[n] \in FourForms(valuesToAdd[i].name))

\* the lines of a file that hold something
WrittenLines(g) ==
  SelectSeq(LinesOf(g), LAMBDA line : \E n \in 1..Len(line) : ~IsWhiteSpace(line[n]))

\* the required entries no line of the file satisfies, in the required order
RECURSIVE MissingFrom(_, _)
MissingFrom(g, i) ==
  IF i > Len(valuesToAdd) THEN <<>>
  ELSE (IF \E n \in 1..Len(LinesOf(g)) : LineSatisfies(LinesOf(g)[n], i)
        THEN <<>> ELSE <<valuesToAdd[i].value>>)
         \o MissingFrom(g, i + 1)

-----------------------------------------------------------------------------
(* _patchPackageJSON applied again and again to one package.json *)

MaxScripts == 2     \* members of "scripts" in a generated package.json

ScriptKeys == {"test", "test-ct", "build"}
ScriptValues == {NoTestSpecified, "jest", "playwright test -c playwright-ct.config.ts"}

ScriptMembers == [k : ScriptKeys, v : ScriptValues]

SeqsUpTo(S, n) == UNION {[1..m -> S] : m \in 0..n}

ManifestInputs ==
  {[kind |-> "json", indent |-> indent, eol |-> eol, order |-> order,
    scripts |-> IF InSeq("scripts", order) THEN scripts ELSE <<>>, deps |-> NoDeps] :
     indent \in {2, 4}, eol \in BOOLEAN,
     order \in {<<"name">>, <<"name", "scripts">>, <<"scripts", "name">>},
     scripts \in SeqsUpTo(ScriptMembers, MaxScripts)}

ManifestAnswers ==
  {[BlankAnswers EXCEPT !.language = l, !.framework = f] :
     l \in Languages, f \in {Undefined, "react", "vue2"}}

InitManifest ==
  /\ packageJSON \in ManifestInputs
  /\ answers \in ManifestAnswers
  /\ options = DefaultOptions
  /\ env = NoTestOptions
  /\ disk = {}
  /\ gitIgnore = NoGitIgnore
  /\ commands = <<>>
  /\ files = <<>>
  /\ pc = "PatchManifest"
  /\ cmdIdx = 1
  /\ fileIdx = 1
  /\ trace = <<>>
  /\ failure = "none"
  /\ applied = 0
  /\ before = NoPackageJSON

ApplyPatchPackageJSON ==
  /\ applied < MaxApply
  /\ ~PatchPackageJSONThrows(packageJSON)
  /\ before' = packageJSON
  /\ packageJSON' = PatchPackageJSON(packageJSON, answers)
  /\ applied' = applied + 1
  /\ UNCHANGED <<options, env, answers, commands, files, pc, cmdIdx, fileIdx, trace,
                 failure, gitIgnore, disk>>

NextManifest == ApplyPatchPackageJSON

SpecManifest == InitManifest /\ [][NextManifest]_vars

\* C8: a second application of the manifest patch writes the file the first
\* application wrote: same keys in the same order, same scripts, same layout.
C8_ManifestIdempotent == applied >= 2 => packageJSON = before

C8_Witness ==
  /\ applied = 2
  /\ answers.framework # Undefined
  /\ packageJSON = before
  /\ HasKey(packageJSON.scripts, "test-ct")
  /\ ~HasKey(packageJSON.scripts, "test")

-----------------------------------------------------------------------------
(* _identifyChanges over the command lines and the answers *)

PlanOptions ==
  {[DefaultOptions EXCEPT !.ct = ct, !.quiet = quiet, !.gha = gha, !.noExamples = noExamples,
                          !.beta = beta, !.next = next, !.browser = browser] :
     ct \in BOOLEAN, quiet \in BOOLEAN, gha \in BOOLEAN, noExamples \in BOOLEAN,
     beta \in BOOLEAN, next \in BOOLEAN, browser \in {<<>>, <<"firefox", "webkit">>}}

PlanTestOptions ==
  {[testDir |-> "tests", installGitHubActions |-> g, language |-> l, framework |-> f,
    installPlaywrightDependencies |-> FALSE, installPlaywrightBrowsers |-> b] :
     g \in BOOLEAN, l \in Languages, f \in Frameworks \cup {Undefined}, b \in BOOLEAN}

PlanEnvs ==
  {NoTestOptions, [NoTestOptions EXCEPT !.linux = TRUE]}
    \cup {[hasTestOptions |-> TRUE, TEST_OPTIONS |-> a, linux |-> TRUE] : a \in PlanTestOptions}

InitPlan ==
  /\ options \in PlanOptions
  /\ env \in PlanEnvs
  /\ packageJSON \in {NoPackageJSON, CorruptPackageJSON, UserPackageJSON}
  /\ disk = {}
  /\ gitIgnore = NoGitIgnore
  /\ answers = BlankAnswers
  /\ commands = <<>>
  /\ files = <<>>
  /\ pc = "Init"
  /\ cmdIdx = 1
  /\ fileIdx = 1
  /\ trace = <<>>
  /\ failure = "none"
  /\ applied = 0
  /\ before = NoPackageJSON

NextPlan ==
  \/ AskQuestions
  \/ IdentifyChanges

SpecPlan == InitPlan /\ [][NextPlan]_vars

-----------------------------------------------------------------------------
(* Claims about Generator.run *)

PlannedPhase(name) == (CHOOSE i \in 1..Len(commands) : commands[i].name = name)

NamesOf(cmds) == [i \in 1..Len(cmds) |-> cmds[i].name]

WhatOf(events) == [i \in 1..Len(events) |-> events[i].what]

IsCommand(e) == e.kind = "command"
IsFileWork(e) == e.kind \in {"file", "kept", "patch"}

PhaseOfEvent(e) == commands[PlannedPhase(e.what)].phase

IsPrefix(s, t) == Len(s) <= Len(t) /\ SubSeq(t, 1, Len(s)) = s

PlannedPre == SelectSeq(commands, LAMBDA c : c.phase = "pre")
PlannedPost == SelectSeq(commands, LAMBDA c : c.phase = "post")

\* every file of the map handled in map order, then the two patches
AllFileWork ==
  [i \in 1..Len(files) |-> files[i].path] \o <<".gitignore", "package.json">>

\* C1: the pre-phase commands run in append order before any file is written;
\* the post-phase commands run in append order after every file of the map has
\* been handled and .gitignore and package.json have been patched.
C1_PhaseOrder ==
  LET ran == WhatOf(SelectSeq(trace, IsCommand))
      work == SelectSeq(trace, IsFileWork)
  IN /\ IsPrefix(ran, NamesOf(PlannedPre \o PlannedPost))
     /\ \A i, j \in 1..Len(trace) :
          (i < j /\ IsCommand(trace[i]) /\ IsFileWork(trace[j])) => PhaseOfEvent(trace[i]) = "pre"
     /\ \A i, j \in 1..Len(trace) :
          (i < j /\ IsFileWork(trace[i]) /\ IsCommand(trace[j])) => PhaseOfEvent(trace[j]) = "post"
     /\ work # <<>> => Len(ran) >= Len(PlannedPre)
     /\ Len(ran) > Len(PlannedPre) => WhatOf(work) = AllFileWork
     /\ pc = "Done" => ran = NamesOf(PlannedPre \o PlannedPost)

C1_Witness ==
  /\ pc = "Done"
  /\ Len(PlannedPre) >= 2
  /\ Len(PlannedPost) = 1
  /\ Len(files) >= 2
  /\ trace[Len(trace)] = Event("command", "Downloading browsers")
  /\ trace[1] = Event("command", "Initializing npm project")

Rank(p) ==
  CASE p = "Init" -> 0
    [] p = "Planning" -> 1
    [] p = "PreCommands" -> 2
    [] p = "WriteFiles" -> 3
    [] p = "PatchIgnore" -> 4
    [] p = "PatchManifest" -> 5
    [] p = "PostCommands" -> 6
    [] p = "Done" -> 7
    [] OTHER -> 8

\* C2: the run moves only forward, one step of the pipeline at a time; a step
\* that fails puts the run in Failed and leaves the directory as it was at that
\* moment; nothing happens after Failed.
C2_FailFast ==
  [][/\ pc # "Failed"
     /\ pc' # "Failed" => (Rank(pc') \in {Rank(pc), Rank(pc) + 1} /\ failure' = "none")
     /\ pc' = "Failed" =>
          /\ failure' # "none"
          /\ disk' = disk
          /\ gitIgnore' = gitIgnore
          /\ packageJSON' = packageJSON
          /\ trace' = trace]_vars

C2_Witness ==
  /\ pc = "Failed"
  /\ failure = "command"
  /\ \E i \in 1..Len(trace) : trace[i] = Event("patch", "package.json")
  /\ \E i \in 1..Len(trace) : trace[i].kind = "file" /\ Exists(disk, trace[i].what)

\* C3: with a package.json that is missing or does not parse, the dependency
\* check answers "absent" and no step of the run fails on the manifest.
C3_ManifestNeverCrashes ==
  /\ packageJSON.kind \in {"absent", "corrupt"} => ~hasDependency(packageJSON, "@types/node")
  /\ failure # "manifest"

ManifestPatched == \E i \in 1..Len(trace) : trace[i] = Event("patch", "package.json")

\* the value of script k in the text of a package.json, <<>> if it has none
ScriptNamed(file, k) ==
  LET at == {i \in 1..Len(file.scripts) : file.scripts[i].k = k}
  IN IF at = {} THEN <<>>
     ELSE <<file.scripts[CHOOSE i \in at : \A j \in at : j <= i].v>>

\* C7: once the manifest is patched, it has no placeholder test script; with a
\* framework selected, test-ct runs playwright against the component-testing
\* configuration file of this run's file map; with none, test-ct is as it was.
C7_ManifestScripts ==
  ManifestPatched =>
    /\ \A i \in 1..Len(packageJSON.scripts) :
         ~(packageJSON.scripts[i].k = "test" /\ packageJSON.scripts[i].v = NoTestSpecified)
    /\ answers.framework # Undefined =>
         \E ext \in {"js", "ts"} :
           /\ FilesHas(files, "playwright-ct.config." \o ext)
           /\ ScriptNamed(packageJSON, "test-ct") = <<"playwright test -c playwright-ct.config." \o ext>>
    /\ answers.framework = Undefined =>
         ScriptNamed(packageJSON, "test-ct") = ScriptNamed(before, "test-ct")

C7_Witness ==
  /\ ManifestPatched
  /\ answers.framework = "react"
  /\ ScriptNamed(before, "test-ct") = <<"jest">>
  /\ ScriptNamed(packageJSON, "test-ct") = <<"playwright test -c playwright-ct.config.ts">>
  /\ FilesHas(files, "playwright-ct.config.ts")

WorkflowRunsTestCt ==
  /\ FilesHas(files, WorkflowPath)
  /\ \E i \in 1..Len(FilesGet(files, WorkflowPath).vars) :
       FilesGet(files, WorkflowPath).vars[i] = [k |-> "runTestsCommand", v |-> "npm run test-ct"]

\* C9: a completed component-testing run leaves playwright-ct.config.<ext> and
\* playwright/index.html in the directory, and a workflow that runs test-ct
\* comes with a package.json that defines test-ct.
C9_CtRunComplete ==
  (pc = "Done" /\ options.ct /\ answers.framework # Undefined) =>
    /\ Exists(disk, "playwright-ct.config." \o (IF answers.language = "JavaScript" THEN "js" ELSE "ts"))
    /\ Exists(disk, "playwright/index.html")
    /\ WorkflowRunsTestCt => ScriptNamed(packageJSON, "test-ct") # <<>>

C9_Witness ==
  /\ pc = "Done"
  /\ options.ct
  /\ answers.framework = "react"
  /\ WorkflowRunsTestCt
  /\ Exists(disk, WorkflowPath)
  /\ Exists(disk, "playwright-ct.config.ts")
  /\ Exists(disk, "playwright/index.html")
  /\ ScriptNamed(packageJSON, "test-ct") # <<>>

-----------------------------------------------------------------------------
(* Claims about _identifyChanges *)

Planned == pc = "PreCommands"

ThreeInstalls ==
  SelectSeq(commands, LAMBDA c : c.name \in {"Installing Playwright Test", "Installing dotenv",
                                             "Installing dxp/playwright-tools"})

\* the tags the options select: none, @beta for beta, @next for next
SelectedTags ==
  IF ~options.beta /\ ~options.next THEN {""}
  ELSE (IF options.beta THEN {"@beta"} ELSE {}) \cup (IF options.next THEN {"@next"} ELSE {})

\* C10 as claimed: without ct the plan installs the test runner, dotenv and the
\* tooling add-on in the pre phase, in that order, all three with the selected
\* tag.
C10_ThreeInstallsSameTag ==
  (Planned /\ ~options.ct) =>
    \E tag \in SelectedTags :
      ThreeInstalls =
        <<Cmd("Installing Playwright Test", "npm install --save-dev @playwright/test" \o tag, "pre"),
          Cmd("Installing dotenv", "npm install --save-dev dotenv" \o tag, "pre"),
          Cmd("Installing dxp/playwright-tools", "npm install --save-dev @dxp/playwright-tools" \o tag, "pre")>>

\* C10 as amended: without ct the plan installs the test runner, dotenv and the
\* tooling add-on in the pre phase, in that order; the test runner and the
\* add-on carry the selected tag (@next when next is given, else @beta when
\* beta is given, else none) and dotenv carries no tag.
C10_ThreeInstallsTagged ==
  (Planned /\ ~options.ct) =>
    LET tag == IF options.next THEN "@next" ELSE IF options.beta THEN "@beta" ELSE ""
    IN ThreeInstalls =
         <<Cmd("Installing Playwright Test", "npm install --save-dev @playwright/test" \o tag, "pre"),
           Cmd("Installing dotenv", "npm install --save-dev dotenv", "pre"),
           Cmd("Installing dxp/playwright-tools", "npm install --save-dev @dxp/playwright-tools" \o tag, "pre")>>

C10_Witness ==
  /\ Planned
  /\ ~options.ct
  /\ options.beta
  /\ options.next
  /\ Len(ThreeInstalls) = 3
  /\ ThreeInstalls[1].command = "npm install --save-dev @playwright/test@next"
  /\ ThreeInstalls[2].command = "npm install --save-dev dotenv"

CtCommandPlanned ==
  \E i \in 1..Len(commands) : commands[i].name = "Installing Playwright Component Testing"

CtConfigPlanned == \E ext \in {"js", "ts"} : FilesHas(files, "playwright-ct.config." \o ext)

E2EConfigPlanned == \E ext \in {"js", "ts"} : FilesHas(files, "playwright.config." \o ext)

\* C12: in every plan the component-testing install is planned exactly when the
\* component-testing configuration is in the file map, it installs
\* @playwright/experimental-ct-<framework> of the selected framework with the
\* selected tag, and exactly one of the two configurations is in the file map.
C12_CtPlanConsistent ==
  Planned =>
    /\ CtCommandPlanned <=> CtConfigPlanned
    /\ \A i \in 1..Len(commands) :
         commands[i].name = "Installing Playwright Component Testing" =>
           /\ answers.framework \in Frameworks
           /\ \E tag \in SelectedTags :
                commands[i].command =
                  "npm install --save-dev @playwright/experimental-ct-" \o answers.framework \o tag
    /\ CtConfigPlanned # E2EConfigPlanned

====
